---- MODULE Spec2Model ----
(***************************************************************************)
(* Render-state and accumulation engine of the ray tracer: the camera      *)
(* (camera.rs), the scene store and its GPU buffers (scene.rs), the frame  *)
(* uniform and the accumulation buffer (gfx_context.rs) and the frame      *)
(* loop that sequences them (app.rs).                                      *)
(*                                                                         *)
(* Units.  Angles are tenths of a degree, lengths are thousandths of a     *)
(* world unit, unit vectors have length 1000, dt is milliseconds and       *)
(* `time` counts hundredths (one TimeStep per frame).  A matrix is         *)
(* represented by the arguments it is computed from.  A GPU buffer is an   *)
(* identity, a capacity and its contents; a bind group is the identities   *)
(* of the buffers it references.                                           *)
(***************************************************************************)
EXTENDS Integers, Sequences, FiniteSets, TLC

VARIABLES handler, pc, window, camera, gfx, scene, app, obs

vars == <<handler, pc, window, camera, gfx, scene, app, obs>>

(***************************************************************************)
(* Bounds of the model.                                                    *)
(***************************************************************************)
MaxPending == 1
MaxFrames == 2
MaxSceneSize == 3
MaxApiSpheres == 4
MaxApiMaterials == 2
MaxTravel == 80
MaxYaw == 1800

(***************************************************************************)
(* Program constants.                                                      *)
(***************************************************************************)
Vec4Bytes == 16
TimeStep == 1
PitchLimit == 890
MouseSensitivity == 1
SpeedSlow == 1
SpeedFast == 5
InitialFramesAccumulated == 0

(***************************************************************************)
(* Input domains.                                                          *)
(***************************************************************************)
\* The sizes the window takes: minimised, and two sizes of different area
\* and aspect ratio.
Sizes == {<<0, 0>>, <<1, 1>>, <<2, 1>>}
ValidSizes == {s \in Sizes : s[1] > 0 /\ s[2] > 0}
MouseDeltas == {<<0, 0>>, <<0, -2000>>}
NoKeys == [keys |-> {}, shift |-> FALSE, ctrl |-> FALSE]
KeyInputs ==
    { NoKeys,
      [keys |-> {"W"}, shift |-> FALSE, ctrl |-> FALSE],
      [keys |-> {"W", "S"}, shift |-> FALSE, ctrl |-> FALSE] }
DtValues == {16}
InspectorPitches == {1000}
EditableSpheres == {1}
EditableMaterials == {1}
Roughnesses == {0, 1000}
SurfaceResults == {"Ok", "Timeout", "Lost", "Outdated", "OutOfMemory"}
\* Mutant: OutOfMemory is handled like Lost, by a resize.
OnRenderResultRecoversOom(result) ==
    CASE result \in {"Ok", "Timeout"} -> "continue"
      [] result \in {"Lost", "Outdated", "OutOfMemory"} -> "resize"

\* What App::update does with the result of render().
OnRenderResult(result) ==
    CASE result \in {"Ok", "Timeout"} -> "continue"
      [] result = "OutOfMemory" -> "panic"
      [] result \in {"Lost", "Outdated"} -> "resize"
RenderOutcomes == {OnRenderResult(result) : result \in SurfaceResults}
\* Mutant: an event the UI consumed is dropped, RedrawRequested included.
WindowEventHandledUnlessConsumed(event, consumed) == ~consumed

\* App::window_event goes on to its match unless the UI consumed the event
\* and the event is not RedrawRequested.
WindowEventHandled(event, consumed) ==
    ~(event # "RedrawRequested" /\ consumed)
\* Mutant: the handler passes every event on, built or not.
HandlerDispatchesAlways(h) == TRUE

\* AppHandler::window_event and device_event: `let Self::Running(ref mut app)
\* = self else { return }`.
HandlerDispatches(h) == h = "Running"

\* focused = !hovering && primary_down, over what the pointer can be doing.
FocusOutcomes ==
    {~hovering /\ primary_down : hovering \in BOOLEAN, primary_down \in BOOLEAN}

(***************************************************************************)
(* Fixed-point vector arithmetic standing for glam's Vec3.                 *)
(***************************************************************************)
Zero3 == <<0, 0, 0>>
UnitY == <<0, 1000, 0>>
VAdd(a, b) == <<a[1] + b[1], a[2] + b[2], a[3] + b[3]>>
VSub(a, b) == <<a[1] - b[1], a[2] - b[2], a[3] - b[3]>>
Abs(x) == IF x < 0 THEN -x ELSE x
\* Division rounding toward zero, as a float product truncated to the grid.
QuotZ(x, d) == IF x < 0 THEN -((-x) \div d) ELSE x \div d
VScaleDiv(k, v, d) == <<QuotZ(k * v[1], d), QuotZ(k * v[2], d), QuotZ(k * v[3], d)>>
Dot(a, b) == a[1] * b[1] + a[2] * b[2] + a[3] * b[3]
Cross(a, b) ==
    << QuotZ(a[2] * b[3] - a[3] * b[2], 1000),
       QuotZ(a[3] * b[1] - a[1] * b[3], 1000),
       QuotZ(a[1] * b[2] - a[2] * b[1], 1000) >>
\* The integer square root, by Newton's iteration from above.
RECURSIVE SqrtFrom(_, _)
SqrtFrom(n, x) ==
    LET y == (x + n \div x) \div 2
    IN  IF y >= x THEN x ELSE SqrtFrom(n, y)
ISqrt(n) == IF n = 0 THEN 0 ELSE SqrtFrom(n, 2048)
Length(v) == ISqrt(Dot(v, v))
Normalize(v) == VScaleDiv(1000, v, Length(v))
NormalizeOrZero(v) == IF Length(v) = 0 THEN Zero3 ELSE Normalize(v)

\* sin on the first quadrant, in thousandths, at the angles the model uses.
SinQ(r) ==
    CASE r = 0 -> 0
      [] r = 10 -> 17
      [] r = 100 -> 174
      [] r = 800 -> 985
      [] r = 890 -> 1000
      [] r = 900 -> 1000
      [] OTHER -> (r * 1000) \div 900
Sin(a) ==
    LET r == a % 3600
    IN  IF r <= 900 THEN SinQ(r)
        ELSE IF r <= 1800 THEN SinQ(1800 - r)
        ELSE IF r <= 2700 THEN -SinQ(r - 1800)
        ELSE -SinQ(3600 - r)
Cos(a) == Sin(a + 900)
\* asin and atan2 in tenths of a degree, on axis directions.
Asin(y) == CASE y = 0 -> 0 [] y = 1000 -> 900 [] y = -1000 -> -900
Atan2(y, x) ==
    CASE y = 0 /\ x > 0 -> 0
      [] y > 0 /\ x = 0 -> 900
      [] y < 0 /\ x = 0 -> -900
      [] y = 0 /\ x < 0 -> 1800
Clamp(x, lo, hi) == IF x < lo THEN lo ELSE IF x > hi THEN hi ELSE x

(***************************************************************************)
(* Camera (camera.rs).                                                     *)
(***************************************************************************)
NewFacing(position, forward) ==
    LET n == Normalize(forward)
    IN  [eye |-> position, yaw |-> Atan2(n[3], n[1]), pitch |-> Asin(n[2]),
         moved |-> FALSE]

Forward(cam) ==
    Normalize(<< QuotZ(Cos(cam.yaw) * Cos(cam.pitch), 1000),
                 Sin(cam.pitch),
                 QuotZ(Sin(cam.yaw) * Cos(cam.pitch), 1000) >>)

CalculateProjection(cam, aspect_ratio) == [fov |-> 450, aspect |-> aspect_ratio]

CalculateView(cam) == [eye |-> cam.eye, dir |-> Normalize(Forward(cam))]

\* Mutant: moved is set whatever the keys.
HandleKeyboardAlwaysMoved(cam, input, dt) ==
    LET forward == Forward(cam)
        right == Cross(forward, UnitY)
        d1 == IF "W" \in input.keys THEN VAdd(Zero3, forward) ELSE Zero3
        d2 == IF "S" \in input.keys THEN VSub(d1, forward) ELSE d1
        d3 == IF "D" \in input.keys THEN VAdd(d2, right) ELSE d2
        d4 == IF "A" \in input.keys THEN VSub(d3, right) ELSE d3
        d5 == IF "Space" \in input.keys THEN VAdd(d4, UnitY) ELSE d4
        d6 == IF input.shift THEN VSub(d5, UnitY) ELSE d5
        delta_pos == NormalizeOrZero(d6)
        speed == IF input.ctrl THEN SpeedSlow ELSE SpeedFast
    IN  [cam EXCEPT !.moved = TRUE,
                    !.eye = VAdd(@, VScaleDiv(speed * dt, delta_pos, 1000))]

\* Camera::handle_keyboard.
HandleKeyboard(cam, input, dt) ==
    LET forward == Forward(cam)
        right == Cross(forward, UnitY)
        d1 == IF "W" \in input.keys THEN VAdd(Zero3, forward) ELSE Zero3
        d2 == IF "S" \in input.keys THEN VSub(d1, forward) ELSE d1
        d3 == IF "D" \in input.keys THEN VAdd(d2, right) ELSE d2
        d4 == IF "A" \in input.keys THEN VSub(d3, right) ELSE d3
        d5 == IF "Space" \in input.keys THEN VAdd(d4, UnitY) ELSE d4
        d6 == IF input.shift THEN VSub(d5, UnitY) ELSE d5
        delta_pos == NormalizeOrZero(d6)
        speed == IF input.ctrl THEN SpeedSlow ELSE SpeedFast
    IN  [cam EXCEPT !.moved = IF Length(d6) # 0 THEN TRUE ELSE @,
                    !.eye = VAdd(@, VScaleDiv(speed * dt, delta_pos, 1000))]

\* Mutant: the pitch is not clamped.
HandleMouseUnclamped(cam, primary_down, delta) ==
    IF primary_down
    THEN LET dx == delta[1] * MouseSensitivity
             dy == delta[2] * MouseSensitivity
         IN  [cam EXCEPT !.yaw = @ + dx,
                         !.pitch = @ - dy,
                         !.moved = IF dx # 0 \/ dy # 0 THEN TRUE ELSE @]
    ELSE cam

\* Camera::handle_mouse.
HandleMouse(cam, primary_down, delta) ==
    IF primary_down
    THEN LET dx == delta[1] * MouseSensitivity
             dy == delta[2] * MouseSensitivity
         IN  [cam EXCEPT !.yaw = @ + dx,
                         !.pitch = Clamp(@ - dy, -PitchLimit, PitchLimit),
                         !.moved = IF dx # 0 \/ dy # 0 THEN TRUE ELSE @]
    ELSE cam

(***************************************************************************)
(* GPU resources: device.create_buffer_init, queue.write_buffer.           *)
(***************************************************************************)
\* The smallest identity no live handle or bind group holds.
FreshId(live) ==
    CHOOSE n \in 0..Cardinality(live) :
        n \notin live /\ \A m \in 0..(n - 1) : m \in live

CreateBufferInit(id, contents) ==
    [id |-> id, len |-> Len(contents), data |-> contents]

\* A write past the end of the buffer is rejected by the device.
WriteBuffer(buffer, data) ==
    IF Len(data) <= buffer.len
    THEN [buffer EXCEPT !.data = data \o SubSeq(@, Len(data) + 1, buffer.len)]
    ELSE buffer

(***************************************************************************)
(* Scene store (scene.rs).                                                 *)
(***************************************************************************)
DefaultSphere ==
    [position |-> <<0, 0, 0, 0>>, radius |-> 500, material_index |-> 0]
DefaultMaterial ==
    [albedo |-> <<600, 200, 700>>, roughness |-> 200,
     emission_color |-> Zero3, emission_strength |-> 0]
\* Sphere::random: one draw of the generator; material_index is always 0.
RandomSphere ==
    [position |-> <<1000, -2000, 3000, 1000>>, radius |-> 700, material_index |-> 0]
\* Material::random (its body is not among the sources).
RandomMaterial ==
    [albedo |-> <<100, 900, 500>>, roughness |-> 500,
     emission_color |-> <<1000, 1000, 1000>>, emission_strength |-> 300]

SceneBufferIds(s) ==
    {s.spheres_buffer.id, s.materials_buffer.id,
     s.bind_group.spheres, s.bind_group.materials}

SceneCreateBindGroup(sphere_buffer, material_buffer) ==
    [spheres |-> sphere_buffer.id, materials |-> material_buffer.id]

SceneNew ==
    LET spheres == <<DefaultSphere>>
        materials == <<DefaultMaterial>>
        spheres_buffer == CreateBufferInit(0, spheres)
        materials_buffer == CreateBufferInit(1, materials)
    IN  [spheres |-> spheres, materials |-> materials,
         spheres_buffer |-> spheres_buffer,
         materials_buffer |-> materials_buffer,
         bind_group |-> SceneCreateBindGroup(spheres_buffer, materials_buffer),
         spheres_size_changed |-> FALSE,
         materials_size_changed |-> FALSE]

\* Mutant: the sphere is appended and the size change goes unrecorded.
AddSphereUnflagged(s, sphere) ==
    [s EXCEPT !.spheres = Append(@, sphere)]

\* Mutant: the push marks the materials as changed too.
AddSphereFlagsBoth(s, sphere) ==
    [s EXCEPT !.spheres = Append(@, sphere), !.spheres_size_changed = TRUE,
              !.materials_size_changed = TRUE]

AddSphere(s, sphere) ==
    [s EXCEPT !.spheres = Append(@, sphere), !.spheres_size_changed = TRUE]

AddMaterial(s, material) ==
    [s EXCEPT !.materials = Append(@, material), !.materials_size_changed = TRUE]

\* Mutant: the edit marks the spheres as changed in size.
EditSphereFlagged(s, i, index) ==
    [s EXCEPT !.spheres[i].material_index = index,
              !.spheres_size_changed = TRUE]

\* An in-place edit through spheres_mut(): the material-index slider.
EditSphere(s, i, index) ==
    [s EXCEPT !.spheres[i].material_index = index]

\* An in-place edit through materials_mut(): the roughness slider.
EditMaterial(s, i, roughness) ==
    [s EXCEPT !.materials[i].roughness = roughness]

\* Mutant: the bind group is rebuilt on every call, dirty or not.
SceneUpdateBuffersAlwaysRebind(s) ==
    LET st1 == IF s.spheres_size_changed
               THEN [s EXCEPT
                        !.spheres_size_changed = FALSE,
                        !.spheres_buffer =
                            CreateBufferInit(FreshId(SceneBufferIds(s)), s.spheres)]
               ELSE s
        st2 == IF st1.materials_size_changed
               THEN [st1 EXCEPT
                        !.materials_size_changed = FALSE,
                        !.materials_buffer =
                            CreateBufferInit(FreshId(SceneBufferIds(st1)),
                                             st1.materials)]
               ELSE st1
    IN  [scene |->
            [st2 EXCEPT
                !.bind_group = SceneCreateBindGroup(st2.spheres_buffer,
                                                    st2.materials_buffer),
                !.spheres_buffer = WriteBuffer(@, s.spheres),
                !.materials_buffer = WriteBuffer(@, s.materials)],
         buffers_created |->
            (IF s.spheres_size_changed THEN 1 ELSE 0)
            + (IF s.materials_size_changed THEN 1 ELSE 0),
         bind_groups_created |-> 1]

\* Mutant: buffers are recreated and the bind group keeps the old ones.
SceneUpdateBuffersStaleBindGroup(s) ==
    LET st0 == [scene |-> s, buffers_created |-> 0, bind_groups_created |-> 0]
        st1 == IF st0.scene.spheres_size_changed
               THEN [st0 EXCEPT
                        !.scene.spheres_size_changed = FALSE,
                        !.scene.spheres_buffer =
                            CreateBufferInit(FreshId(SceneBufferIds(st0.scene)),
                                             st0.scene.spheres),
                        !.buffers_created = @ + 1]
               ELSE st0
        st2 == IF st1.scene.materials_size_changed
               THEN [st1 EXCEPT
                        !.scene.materials_size_changed = FALSE,
                        !.scene.materials_buffer =
                            CreateBufferInit(FreshId(SceneBufferIds(st1.scene)),
                                             st1.scene.materials),
                        !.buffers_created = @ + 1]
               ELSE st1
    IN  [st2 EXCEPT
            !.scene.spheres_buffer = WriteBuffer(@, s.spheres),
            !.scene.materials_buffer = WriteBuffer(@, s.materials)]

\* Mutant: the collections are uploaded only when a buffer is recreated.
SceneUpdateBuffersUploadIfDirty(s) ==
    LET recreate_bind_group == s.spheres_size_changed \/ s.materials_size_changed
        st0 == [scene |-> s, buffers_created |-> 0, bind_groups_created |-> 0]
        st1 == IF st0.scene.spheres_size_changed
               THEN [st0 EXCEPT
                        !.scene.spheres_size_changed = FALSE,
                        !.scene.spheres_buffer =
                            CreateBufferInit(FreshId(SceneBufferIds(st0.scene)),
                                             st0.scene.spheres),
                        !.buffers_created = @ + 1]
               ELSE st0
        st2 == IF st1.scene.materials_size_changed
               THEN [st1 EXCEPT
                        !.scene.materials_size_changed = FALSE,
                        !.scene.materials_buffer =
                            CreateBufferInit(FreshId(SceneBufferIds(st1.scene)),
                                             st1.scene.materials),
                        !.buffers_created = @ + 1]
               ELSE st1
    IN  IF recreate_bind_group
        THEN [st2 EXCEPT
                 !.scene.bind_group =
                     SceneCreateBindGroup(st2.scene.spheres_buffer,
                                          st2.scene.materials_buffer),
                 !.bind_groups_created = @ + 1]
        ELSE st2

\* Scene::update_buffers.  The result carries the scene and the number of
\* buffers and bind groups the call asked the device to create.
SceneUpdateBuffers(s) ==
    LET recreate_bind_group == s.spheres_size_changed \/ s.materials_size_changed
        spheres_bytes == s.spheres
        materials_bytes == s.materials
        st0 == [scene |-> s, buffers_created |-> 0, bind_groups_created |-> 0]
        st1 == IF st0.scene.spheres_size_changed
               THEN [st0 EXCEPT
                        !.scene.spheres_size_changed = FALSE,
                        !.scene.spheres_buffer =
                            CreateBufferInit(FreshId(SceneBufferIds(st0.scene)),
                                             st0.scene.spheres),
                        !.buffers_created = @ + 1]
               ELSE st0
        st2 == IF st1.scene.materials_size_changed
               THEN [st1 EXCEPT
                        !.scene.materials_size_changed = FALSE,
                        !.scene.materials_buffer =
                            CreateBufferInit(FreshId(SceneBufferIds(st1.scene)),
                                             st1.scene.materials),
                        !.buffers_created = @ + 1]
               ELSE st1
        st3 == IF recreate_bind_group
               THEN [st2 EXCEPT
                        !.scene.bind_group =
                            SceneCreateBindGroup(st2.scene.spheres_buffer,
                                                 st2.scene.materials_buffer),
                        !.bind_groups_created = @ + 1]
               ELSE st2
    IN  [st3 EXCEPT
            !.scene.spheres_buffer = WriteBuffer(@, spheres_bytes),
            !.scene.materials_buffer = WriteBuffer(@, materials_bytes)]

(***************************************************************************)
(* Frame uniform, accumulation buffer and render context (gfx_context.rs). *)
(***************************************************************************)
RECURSIVE Gcd(_, _)
Gcd(a, b) == IF b = 0 THEN a ELSE Gcd(b, a % b)
\* width as f32 / height as f32, kept as a reduced fraction.
AspectRatio(size) ==
    LET g == Gcd(size[1], size[2])
    IN  IF g = 0 THEN <<0, 0>> ELSE <<size[1] \div g, size[2] \div g>>

RenderUniformNew(size, cam) ==
    [inverse_projection |-> CalculateProjection(cam, AspectRatio(size)),
     inverse_view |-> CalculateView(cam),
     light_direction |-> <<-690, -635, 331>>,
     aspect_ratio |-> AspectRatio(size),
     sky_color |-> <<10, 10, 10>>,
     time |-> 0,
     dimensions |-> size,
     frames_accumulated |-> InitialFramesAccumulated,
     accumulate |-> TRUE]

CalculateBytes(size) == size[1] * size[2] * Vec4Bytes

AccumulationCreateBindGroup(buffer) == [buffer |-> buffer.id]

AccumulationBufferNew(size) ==
    LET buffer == [id |-> 0, size |-> CalculateBytes(size)]
    IN  [buffer |-> buffer, bind_group |-> AccumulationCreateBindGroup(buffer)]

\* Mutant: the new buffer is created and the bind group is not rebuilt.
AccumulationResetStaleBindGroup(acc, size) ==
    [acc EXCEPT !.buffer = [id |-> FreshId({acc.buffer.id, acc.bind_group.buffer}),
                            size |-> CalculateBytes(size)]]

\* AccumulationBuffer::reset: the old buffer is still held by the handle and
\* by the bind group while the new one is created.
AccumulationReset(acc, size) ==
    LET buffer == [id |-> FreshId({acc.buffer.id, acc.bind_group.buffer}),
                   size |-> CalculateBytes(size)]
    IN  [buffer |-> buffer, bind_group |-> AccumulationCreateBindGroup(buffer)]

LegacySpheres == <<"ground", "white", "red">>

CreateRenderDataBindGroup(uniform_buffer, storage_buffer) ==
    [uniform |-> uniform_buffer.id, storage |-> storage_buffer.id]

GfxNew(window_size, cam) ==
    LET render_uniform == RenderUniformNew(window_size, cam)
        render_uniform_buffer == CreateBufferInit(0, <<render_uniform>>)
        scene_storage_buffer == CreateBufferInit(1, LegacySpheres)
    IN  [surface_config |-> window_size,
         surface |-> window_size,
         render_uniform |-> render_uniform,
         render_uniform_buffer |-> render_uniform_buffer,
         scene |-> [spheres |-> LegacySpheres, size_changed |-> FALSE],
         scene_storage_buffer |-> scene_storage_buffer,
         render_data_bind_group |->
             CreateRenderDataBindGroup(render_uniform_buffer, scene_storage_buffer),
         accumulation_buffer |-> AccumulationBufferNew(window_size)]

\* Mutant: the counter restarts at 0 instead of 1.
ResetAccumulationToZero(g, inner_size) ==
    [g EXCEPT !.accumulation_buffer = AccumulationReset(@, inner_size),
              !.render_uniform.frames_accumulated = 0]

\* Mutant: the reset restarts time as well.
ResetAccumulationRestartsTime(g, inner_size) ==
    [g EXCEPT !.accumulation_buffer = AccumulationReset(@, inner_size),
              !.render_uniform.frames_accumulated = 1,
              !.render_uniform.time = 0]

\* GfxContext::reset_accumulation.
ResetAccumulation(g, inner_size) ==
    [g EXCEPT !.accumulation_buffer = AccumulationReset(@, inner_size),
              !.render_uniform.frames_accumulated = 1]

ResizeAsserts(size) == size[1] > 0 /\ size[2] > 0

\* GfxContext::resize once its assertions have passed.
Resize(g, size, inner_size) ==
    ResetAccumulation(
        [g EXCEPT !.surface_config = size,
                  !.surface = size,
                  !.render_uniform.aspect_ratio = AspectRatio(size),
                  !.render_uniform.dimensions = size],
        inner_size)

\* Mutant: the surface configuration is written before the assertions run.
TryResizeAssertsLate(g, size, inner_size) ==
    IF ResizeAsserts(size)
    THEN [panicked |-> FALSE, gfx |-> Resize(g, size, inner_size)]
    ELSE [panicked |-> TRUE,
          gfx |-> [g EXCEPT !.surface_config = size, !.surface = size]]

\* Mutant: the surface is reconfigured and accumulation is left as it was.
TryResizeWithoutReset(g, size, inner_size) ==
    IF ResizeAsserts(size)
    THEN [panicked |-> FALSE,
          gfx |-> [g EXCEPT !.surface_config = size,
                            !.surface = size,
                            !.render_uniform.aspect_ratio = AspectRatio(size),
                            !.render_uniform.dimensions = size]]
    ELSE [panicked |-> TRUE, gfx |-> g]

\* GfxContext::resize: the two assertions are its first statements; when
\* one fails the call unwinds with the context as it found it.
TryResize(g, size, inner_size) ==
    IF ResizeAsserts(size)
    THEN [panicked |-> FALSE, gfx |-> Resize(g, size, inner_size)]
    ELSE [panicked |-> TRUE, gfx |-> g]

\* Mutant: the moved flag is cleared and accumulation is not reset.
GfxUpdateBuffersNoReset(g, cam, inner_size) ==
    LET g1 == [g EXCEPT
                  !.render_uniform.inverse_projection =
                      CalculateProjection(cam, g.render_uniform.aspect_ratio),
                  !.render_uniform.inverse_view = CalculateView(cam),
                  !.render_uniform.time = @ + TimeStep,
                  !.render_uniform.frames_accumulated = @ + 1]
    IN  [gfx |-> [g1 EXCEPT
                     !.scene_storage_buffer = WriteBuffer(@, g1.scene.spheres),
                     !.render_uniform_buffer = WriteBuffer(@, <<g1.render_uniform>>)],
         camera |-> [cam EXCEPT !.moved = FALSE]]

\* Mutant: the frame counter is not advanced.
GfxUpdateBuffersNoIncrement(g, cam, inner_size) ==
    LET g1 == [g EXCEPT
                  !.render_uniform.inverse_projection =
                      CalculateProjection(cam, g.render_uniform.aspect_ratio),
                  !.render_uniform.inverse_view = CalculateView(cam),
                  !.render_uniform.time = @ + TimeStep]
        g2 == IF cam.moved THEN ResetAccumulation(g1, inner_size) ELSE g1
    IN  [gfx |-> [g2 EXCEPT
                     !.scene_storage_buffer = WriteBuffer(@, g2.scene.spheres),
                     !.render_uniform_buffer = WriteBuffer(@, <<g2.render_uniform>>)],
         camera |-> [cam EXCEPT !.moved = FALSE]]

\* GfxContext::update_buffers; the result is the context and the camera.
GfxUpdateBuffers(g, cam, inner_size) ==
    LET g1 == [g EXCEPT
                  !.render_uniform.inverse_projection =
                      CalculateProjection(cam, g.render_uniform.aspect_ratio),
                  !.render_uniform.inverse_view = CalculateView(cam),
                  !.render_uniform.time = @ + TimeStep,
                  !.render_uniform.frames_accumulated = @ + 1]
        g2 == IF cam.moved THEN ResetAccumulation(g1, inner_size) ELSE g1
        cam2 == IF cam.moved THEN [cam EXCEPT !.moved = FALSE] ELSE cam
        g3 == IF g2.scene.size_changed
              THEN LET buffer ==
                           CreateBufferInit(
                               FreshId({g2.render_uniform_buffer.id,
                                        g2.scene_storage_buffer.id,
                                        g2.render_data_bind_group.storage}),
                               g2.scene.spheres)
                   IN  [g2 EXCEPT
                          !.scene.size_changed = FALSE,
                          !.scene_storage_buffer = buffer,
                          !.render_data_bind_group =
                              CreateRenderDataBindGroup(g2.render_uniform_buffer,
                                                        buffer)]
              ELSE g2
        g4 == [g3 EXCEPT
                  !.scene_storage_buffer = WriteBuffer(@, g3.scene.spheres),
                  !.render_uniform_buffer =
                      WriteBuffer(@, <<g3.render_uniform>>)]
    IN  [gfx |-> g4, camera |-> cam2]

(***************************************************************************)
(* The inspector panel (App::ui).  One pointer interaction per frame.      *)
(***************************************************************************)
\* Mutant: the slider's upper bound is materials.len().
MaterialIndexRangeToLen(sc) == 0..Len(sc.materials)

\* The range of the material-index slider: 0..=materials_len, where
\* materials_len is materials.len() - 1.
MaterialIndexRange(sc) ==
    LET materials_len == Len(sc.materials) - 1
    IN  0..materials_len

Interaction(kind, i, value) == [kind |-> kind, i |-> i, value |-> value]

UiInteractions(enabled, sc) ==
    IF ~enabled
    THEN {Interaction("none", 0, 0)}
    ELSE {Interaction("none", 0, 0), Interaction("toggle_accumulate", 0, 0)}
         \cup {Interaction("edit_pitch", 0, p) : p \in InspectorPitches}
         \cup (IF Len(sc.spheres) + Len(sc.materials) < MaxSceneSize
               THEN {Interaction("add_sphere", 0, 0)} ELSE {})
         \cup {Interaction("edit_sphere", i, v) :
                  i \in EditableSpheres \cap (1..Len(sc.spheres)),
                  v \in MaterialIndexRange(sc)}
         \cup (IF Len(sc.spheres) + Len(sc.materials) < MaxSceneSize
               THEN {Interaction("add_material", 0, 0)} ELSE {})

\* App::ui; the result is the context, the camera and the scene.
Ui(g, cam, sc, it, inner_size) ==
    [gfx |->
        IF it.kind = "toggle_accumulate"
        THEN ResetAccumulation(
                 [g EXCEPT !.render_uniform.accumulate = ~@], inner_size)
        ELSE g,
     camera |->
        IF it.kind = "edit_pitch" THEN [cam EXCEPT !.pitch = it.value] ELSE cam,
     scene |->
        CASE it.kind = "add_sphere" -> AddSphere(sc, RandomSphere)
          [] it.kind = "edit_sphere" -> EditSphere(sc, it.i, it.value)
          [] it.kind = "add_material" -> AddMaterial(sc, RandomMaterial)
          [] OTHER -> sc]

\* What the interaction invalidates, for the observer.
UiTriggers(it) ==
    (IF it.kind = "toggle_accumulate" THEN {"toggle"} ELSE {})
    \cup (IF it.kind \in {"add_sphere", "add_material"} THEN {"scene"} ELSE {})

(***************************************************************************)
(* State.                                                                  *)
(*   handler  AppHandler: Initializing, Running; Exited after the event    *)
(*            loop was told to exit, Panicked after a panic                *)
(*   pc       the position inside App::update                              *)
(*   window   inner size, undelivered Resized events, redraw request       *)
(*   camera, gfx, scene, app   the fields of App                           *)
(*   obs      observer: what was invalidated since the last reconciliation,*)
(*            adds since the last scene reconciliation, and what the       *)
(*            reconciliations of the running frame saw and did; the number *)
(*            of calls of gfx_context.update_buffers since construction;   *)
(*            the size the last resize found (SpecResize)                  *)
(***************************************************************************)
InitialEye == <<0, 1000, 4000>>
InitialCamera == NewFacing(InitialEye, <<0, 0, -1000>>)

NoRecon ==
    [valid |-> FALSE, spheres_added |-> 0, materials_added |-> 0,
     buffers_created |-> 0, bind_groups_created |-> 0,
     spheres_before |-> 0, materials_before |-> 0]
NoStart == [frames_accumulated |-> 0, time |-> 0]
NoSeen ==
    [valid |-> FALSE, triggers |-> {}, prev_uploaded |-> 0, started |-> NoStart,
     steps |-> <<>>]
\* What resize() works on: the surface configuration, the uniform's aspect
\* ratio and dimensions, the accumulation buffer, frames_accumulated.
ResizeView(g) ==
    [surface_config |-> g.surface_config,
     aspect_ratio |-> g.render_uniform.aspect_ratio,
     dimensions |-> g.render_uniform.dimensions,
     accumulation_buffer |-> g.accumulation_buffer,
     frames_accumulated |-> g.render_uniform.frames_accumulated]
NoPanic ==
    [cause |-> "none", found |-> ResizeView(GfxNew(<<0, 0>>, InitialCamera)),
     left |-> ResizeView(GfxNew(<<0, 0>>, InitialCamera))]
\* A failed assertion of resize(): what the call found and what it left.
AssertPanic(found, left) ==
    [cause |-> "assert", found |-> ResizeView(found), left |-> ResizeView(left)]
OutOfMemoryPanic == [NoPanic EXCEPT !.cause = "out_of_memory"]

\* The last handle_mouse applied to the camera on its own: whether the
\* primary button was down and the pitch it started from.
NoLook == [applied |-> FALSE, pitch_before |-> 0]

\* The last handle_keyboard applied to the camera on its own: the keys and
\* the camera it was applied to.
NoKeyStep == [applied |-> FALSE, input |-> NoKeys, before |-> InitialCamera]

\* The last MouseMotion event delivered on its own: what the pointer was
\* doing.
NoPointer == [delivered |-> FALSE, primary_down |-> FALSE, hovering |-> FALSE]

InitialObs ==
    [invalidated |-> {}, adds |-> <<0, 0>>, recon |-> NoRecon, seen |-> NoSeen,
     panic |-> NoPanic, look |-> NoLook, edited |-> FALSE, frames |-> 0,
     resized_from |-> <<>>, keys |-> NoKeyStep, pointer |-> NoPointer,
     ignored |-> FALSE]

Init ==
    /\ handler = "Initializing"
    /\ pc = "idle"
    /\ window \in {[size |-> s, resized |-> <<>>, redraw_requested |-> FALSE] :
                      s \in ValidSizes}
    /\ camera = InitialCamera
    /\ gfx = GfxNew(window.size, camera)
    /\ scene = SceneNew
    /\ app = [egui_enabled |-> TRUE, dt |-> 0, focused |-> FALSE]
    /\ obs = InitialObs

ReleasedGfx == GfxNew(<<0, 0>>, InitialCamera)

\* exit() and a panic end the event loop and drop the App.  Nothing of it
\* can be observed afterwards: its variables return to the values of
\* construction, so that ended runs differ by their outcome and, for a
\* panic, by what the observer recorded of it.
Dropped(outcome, panic) ==
    /\ handler' = outcome
    /\ pc' = "idle"
    /\ window' = [window EXCEPT !.resized = <<>>, !.redraw_requested = FALSE]
    /\ camera' = InitialCamera
    /\ gfx' = ReleasedGfx
    /\ scene' = SceneNew
    /\ app' = [egui_enabled |-> TRUE, dt |-> 0, focused |-> FALSE]
    /\ obs' = [InitialObs EXCEPT !.panic = panic]

\* AppHandler::resumed: the window is created and the App is built on it.
Resumed ==
    /\ handler = "Initializing"
    /\ handler' = "Running"
    /\ window' = [window EXCEPT !.redraw_requested = TRUE]
    /\ camera' = InitialCamera
    /\ gfx' = GfxNew(window.size, camera')
    /\ scene' = SceneNew
    /\ app' = [egui_enabled |-> TRUE, dt |-> 0, focused |-> FALSE]
    /\ UNCHANGED <<pc, obs>>

\* The window system changes the window's size and queues a Resized event.
OsResize ==
    /\ handler = "Running" /\ pc = "idle"
    /\ Len(window.resized) < MaxPending
    /\ \E s \in Sizes \ {window.size} :
          window' = [window EXCEPT !.size = s, !.resized = Append(@, s)]
    /\ UNCHANGED <<handler, pc, camera, gfx, scene, app, obs>>

\* App::window_event, WindowEvent::Resized.
WindowResized ==
    /\ HandlerDispatches(handler) /\ pc = "idle"
    /\ window.resized # <<>>
    /\ LET size == Head(window.resized)
           r == TryResize(gfx, size, window.size)
       IN  IF ~r.panicked
           THEN /\ window' = [window EXCEPT !.resized = Tail(@)]
                /\ gfx' = r.gfx
                /\ obs' = [obs EXCEPT !.invalidated = @ \cup {"resize"}]
                /\ UNCHANGED <<handler, pc, camera, scene, app>>
           ELSE Dropped("Panicked", AssertPanic(gfx, r.gfx))

\* App::window_event, CloseRequested.
CloseRequested ==
    /\ HandlerDispatches(handler) /\ pc = "idle"
    /\ Dropped("Exited", NoPanic)

\* App::device_event, MouseMotion.
MouseOutcome(cam, delta, primary_down, hovering) ==
    IF hovering THEN cam ELSE HandleMouse(cam, primary_down, delta)

MouseMotionWith(delta, primary_down, hovering) ==
    /\ HandlerDispatches(handler) /\ pc = "idle"
    /\ camera' = MouseOutcome(camera, delta, primary_down, hovering)
    /\ UNCHANGED <<handler, pc, window, gfx, scene, app, obs>>

\* Every delivery of a MouseMotion event, one step per distinct outcome.
MouseMotion ==
    /\ HandlerDispatches(handler) /\ pc = "idle"
    /\ camera' \in {MouseOutcome(camera, delta, primary_down, hovering) :
                        delta \in MouseDeltas,
                        primary_down \in BOOLEAN, hovering \in BOOLEAN}
    /\ UNCHANGED <<handler, pc, window, gfx, scene, app, obs>>

(***************************************************************************)
(* App::update, in two steps: up to the upload of the frame's data, then   *)
(* input handling and presentation.                                        *)
(***************************************************************************)
\* What the observer records of one Scene::update_buffers.
ReconOf(before, r, adds) ==
    [valid |-> TRUE, spheres_added |-> adds[1], materials_added |-> adds[2],
     buffers_created |-> r.buffers_created,
     bind_groups_created |-> r.bind_groups_created,
     spheres_before |-> before.spheres_buffer.id,
     materials_before |-> before.materials_buffer.id]

\* The steps of a frame that App::update has taken when
\* gfx_context.update_buffers returns, in the order it takes them: ui();
\* scene.update_buffers, which recreates what a size flag asks for and then
\* writes both collections; gfx_context.update_buffers, which recomputes the
\* uniform, resets accumulation if the camera moved, and writes the uniform.
UpdateBuffersSteps ==
    <<"input", "scene", "upload", "uniform", "accumulation", "upload">>

\* RedrawRequested, consumed by the UI or not: ui(), handle_platform_output, dt,
\* scene.update_buffers(&gfx_context), gfx_context.update_buffers(&mut camera).
UpdateBuffers ==
    /\ HandlerDispatches(handler) /\ pc = "idle"
    /\ window.redraw_requested
    /\ gfx.render_uniform.time < MaxFrames * TimeStep
    /\ \E consumed \in BOOLEAN :
          IF WindowEventHandled("RedrawRequested", consumed)
          THEN
             /\ \E it \in UiInteractions(app.egui_enabled, scene),
                   dt \in DtValues :
                   LET u == Ui(gfx, camera, scene, it, window.size)
                       s == SceneUpdateBuffers(u.scene)
                       r == GfxUpdateBuffers(u.gfx, u.camera, window.size)
                       adds == <<IF it.kind = "add_sphere" THEN 1 ELSE 0,
                                 IF it.kind = "add_material" THEN 1 ELSE 0>>
                   IN  /\ gfx' = r.gfx
                       /\ camera' = r.camera
                       /\ scene' = s.scene
                       /\ app' = [app EXCEPT !.dt = dt]
                       /\ obs' =
                            [invalidated |-> {},
                             adds |-> <<0, 0>>,
                             panic |-> obs.panic,
                             look |-> obs.look,
                             edited |-> obs.edited,
                             frames |-> obs.frames + 1,
                             resized_from |-> <<>>,
                             keys |-> obs.keys,
                             pointer |-> obs.pointer,
                             ignored |-> obs.ignored,
                             recon |-> ReconOf(u.scene, s, adds),
                             seen |->
                                 [valid |-> TRUE,
                                  triggers |->
                                      obs.invalidated \cup UiTriggers(it) \cup
                                      (IF u.camera.moved THEN {"move"} ELSE {}),
                                  prev_uploaded |->
                                      gfx.render_uniform_buffer.data[1].frames_accumulated,
                                  started |->
                                      [frames_accumulated |->
                                           gfx.render_uniform.frames_accumulated,
                                       time |-> gfx.render_uniform.time],
                                  steps |-> UpdateBuffersSteps]]
             /\ pc' = "input"
          ELSE
             /\ UNCHANGED <<pc, camera, gfx, scene, app, obs>>
    /\ window' = [window EXCEPT !.redraw_requested = FALSE]
    /\ UNCHANGED handler

Travel(eye) ==
    LET d == VSub(eye, InitialEye)
    IN  Abs(d[1]) + Abs(d[2]) + Abs(d[3])

\* The focus decision and handle_keyboard, gfx_context.render(..) returning
\* result, the match on its error, request_redraw.
PresentWith(focused, input, result) ==
    /\ handler = "Running" /\ pc = "input"
    /\ LET cam == IF focused THEN HandleKeyboard(camera, input, app.dt)
                  ELSE camera
           outcome == OnRenderResult(result)
           r == TryResize(gfx, window.size, window.size)
           presented ==
               /\ camera' = cam
               /\ app' = [app EXCEPT !.focused = focused]
               /\ window' = [window EXCEPT !.redraw_requested = TRUE]
               /\ pc' = "idle"
               /\ UNCHANGED <<handler, scene>>
       IN  /\ Travel(cam.eye) <= MaxTravel
           /\ CASE outcome = "continue" ->
                     /\ presented
                     /\ obs' = [obs EXCEPT !.recon = NoRecon, !.seen = NoSeen]
                     /\ UNCHANGED gfx
                [] outcome = "panic" -> Dropped("Panicked", OutOfMemoryPanic)
                [] outcome = "resize" ->
                     IF ~r.panicked
                     THEN /\ presented
                          /\ gfx' = r.gfx
                          /\ obs' = [obs EXCEPT
                                        !.recon = NoRecon, !.seen = NoSeen,
                                        !.invalidated = @ \cup {"resize"}]
                     ELSE Dropped("Panicked", AssertPanic(gfx, r.gfx))

\* One step per way App::update can go on: the results of render() that the
\* match treats alike give the same step.
UpdatePresent ==
    \E focused \in FocusOutcomes, outcome \in RenderOutcomes :
    \E input \in (IF focused THEN KeyInputs ELSE {NoKeys}) :
        PresentWith(focused, input,
                    CHOOSE result \in SurfaceResults :
                        OnRenderResult(result) = outcome)

Next ==
    \/ Resumed
    \/ OsResize
    \/ WindowResized
    \/ CloseRequested
    \/ MouseMotion
    \/ UpdateBuffers
    \/ UpdatePresent

Spec == Init /\ [][Next]_vars

(***************************************************************************)
(* The frame loop on its own: window events and frames in which the UI is  *)
(* left alone and the camera is not moved, every result of render()        *)
(* included.  The event loop delivers a requested redraw, and App::update, *)
(* once entered, runs to its end.                                          *)
(***************************************************************************)
LoopUpdateBuffers ==
    /\ UpdateBuffers
    /\ scene'.spheres = scene.spheres /\ scene'.materials = scene.materials
    /\ camera'.pitch = camera.pitch
    /\ gfx'.render_uniform.accumulate = gfx.render_uniform.accumulate

LoopUpdatePresent == UpdatePresent /\ camera'.eye = camera.eye

NextLoop ==
    \/ Resumed
    \/ OsResize
    \/ WindowResized
    \/ CloseRequested
    \/ LoopUpdateBuffers
    \/ LoopUpdatePresent

\* LoopUpdateBuffers is enabled exactly when a redraw is pending: the frame
\* without interaction can always be taken.
RedrawPending ==
    /\ handler = "Running" /\ pc = "idle"
    /\ window.redraw_requested
    /\ gfx.render_uniform.time < MaxFrames * TimeStep

\* The step of LoopUpdateBuffers that enters App::update, told by pc.
RedrawDelivered == pc = "idle" /\ pc' = "input"

\* Weak fairness of LoopUpdateBuffers, written out on RedrawPending and
\* RedrawDelivered, and weak fairness of LoopUpdatePresent.
SpecLoop ==
    /\ Init /\ [][NextLoop]_vars
    /\ ([]<>(~RedrawPending) \/ []<><<RedrawDelivered>>_vars)
    /\ WF_vars(LoopUpdatePresent)

(***************************************************************************)
(* Pointer and keyboard input on their own: frames in which the UI is left *)
(* alone, and MouseMotion events between them, each recorded with what the *)
(* pointer was doing.                                                      *)
(***************************************************************************)
FocusMouseMotionWith(delta, primary_down, hovering) ==
    /\ HandlerDispatches(handler) /\ pc = "idle"
    /\ camera' = MouseOutcome(camera, delta, primary_down, hovering)
    /\ obs' = [obs EXCEPT !.pointer = [delivered |-> TRUE,
                                       primary_down |-> primary_down,
                                       hovering |-> hovering]]
    /\ UNCHANGED <<handler, pc, window, gfx, scene, app>>

FocusMouseMotion ==
    \E delta \in MouseDeltas, primary_down \in BOOLEAN, hovering \in BOOLEAN :
        FocusMouseMotionWith(delta, primary_down, hovering)

NextFocus ==
    \/ Resumed
    \/ LoopUpdateBuffers
    \/ UpdatePresent
    \/ FocusMouseMotion

SpecFocus == Init /\ [][NextFocus]_vars

(***************************************************************************)
(* The handler's life: events that arrive before resumed has built the     *)
(* App, then the frame loop with window and device events.                 *)
(***************************************************************************)
\* A window or device event delivered while the handler holds no App: the
\* handler returns.  obs.ignored records that one was delivered.
IgnoredEvent ==
    /\ handler = "Initializing"
    /\ ~HandlerDispatches(handler)
    /\ obs' = [obs EXCEPT !.ignored = TRUE]
    /\ UNCHANGED <<handler, pc, window, camera, gfx, scene, app>>

NextHandler ==
    \/ IgnoredEvent
    \/ Resumed
    \/ OsResize
    \/ WindowResized
    \/ CloseRequested
    \/ MouseMotion
    \/ LoopUpdateBuffers
    \/ LoopUpdatePresent

SpecHandler == Init /\ [][NextHandler]_vars

(***************************************************************************)
(* The scene store driven through its own interface: any sequence of       *)
(* add_sphere, add_material, in-place edits and update_buffers.            *)
(***************************************************************************)
\* obs.edited: an in-place edit was made and no add has followed the
\* reconciliation that came after it.
ApiAddSphere ==
    /\ Len(scene.spheres) < MaxApiSpheres
    /\ scene' = AddSphere(scene, RandomSphere)
    /\ obs' = [obs EXCEPT !.adds = <<@[1] + 1, @[2]>>, !.recon = NoRecon,
                          !.edited = @ /\ ~obs.recon.valid]
    /\ UNCHANGED <<handler, pc, window, camera, gfx, app>>

ApiAddMaterial ==
    /\ Len(scene.materials) < MaxApiMaterials
    /\ scene' = AddMaterial(scene, RandomMaterial)
    /\ obs' = [obs EXCEPT !.adds = <<@[1], @[2] + 1>>, !.recon = NoRecon,
                          !.edited = @ /\ ~obs.recon.valid]
    /\ UNCHANGED <<handler, pc, window, camera, gfx, app>>

ApiEditSphere ==
    /\ \E i \in EditableSpheres \cap (1..Len(scene.spheres)),
          v \in MaterialIndexRange(scene) :
          /\ scene.spheres[i].material_index # v
          /\ scene' = EditSphere(scene, i, v)
    /\ obs' = [obs EXCEPT !.recon = NoRecon, !.edited = TRUE]
    /\ UNCHANGED <<handler, pc, window, camera, gfx, app>>

ApiEditMaterial ==
    /\ \E i \in EditableMaterials \cap (1..Len(scene.materials)),
          v \in Roughnesses :
          /\ scene.materials[i].roughness # v
          /\ scene' = EditMaterial(scene, i, v)
    /\ obs' = [obs EXCEPT !.recon = NoRecon, !.edited = TRUE]
    /\ UNCHANGED <<handler, pc, window, camera, gfx, app>>

ApiUpdateBuffers ==
    /\ LET r == SceneUpdateBuffers(scene)
       IN  /\ scene' = r.scene
           /\ obs' = [obs EXCEPT !.recon = ReconOf(scene, r, obs.adds),
                                 !.adds = <<0, 0>>]
    /\ UNCHANGED <<handler, pc, window, camera, gfx, app>>

NextScene ==
    \/ ApiAddSphere
    \/ ApiAddMaterial
    \/ ApiEditSphere
    \/ ApiEditMaterial
    \/ ApiUpdateBuffers

SpecScene == Init /\ [][NextScene]_vars

(***************************************************************************)
(* The camera driven through handle_mouse alone, from any starting yaw and *)
(* pitch, the pitch inside and outside the limits.                         *)
(***************************************************************************)
StartYaws == {-900, 0}
StartPitches == {-1000, -890, 0, 890, 1000}
LookDeltas ==
    {<<dx, dy>> : dx \in {0, 900}, dy \in {-2000, -10, 0, 10, 2000}}

InitCamera ==
    /\ handler = "Running"
    /\ pc = "idle"
    /\ window = [size |-> <<1, 1>>, resized |-> <<>>, redraw_requested |-> FALSE]
    /\ camera \in {[eye |-> InitialEye, yaw |-> yaw, pitch |-> pitch,
                     moved |-> FALSE] :
                        yaw \in StartYaws, pitch \in StartPitches}
    /\ gfx = GfxNew(window.size, InitialCamera)
    /\ scene = SceneNew
    /\ app = [egui_enabled |-> TRUE, dt |-> 0, focused |-> FALSE]
    /\ obs = InitialObs

CameraLook ==
    /\ \E delta \in LookDeltas, primary_down \in BOOLEAN :
          /\ Abs(camera.yaw + delta[1] * MouseSensitivity) <= MaxYaw
          /\ camera' = HandleMouse(camera, primary_down, delta)
          /\ obs' = [obs EXCEPT !.look = [applied |-> primary_down,
                                          pitch_before |-> camera.pitch]]
    /\ UNCHANGED <<handler, pc, window, gfx, scene, app>>

NextCamera == CameraLook

SpecCamera == InitCamera /\ [][NextCamera]_vars

(***************************************************************************)
(* The camera driven through handle_keyboard alone, from poses level and   *)
(* tilted, with moved set and clear.                                       *)
(***************************************************************************)
KeyNames == {"W", "S", "A", "D", "Space"}
AllKeyInputs ==
    {[keys |-> keys, shift |-> shift, ctrl |-> ctrl] :
        keys \in SUBSET KeyNames, shift \in BOOLEAN, ctrl \in BOOLEAN}
\* The key states the camera is walked with: none, single keys, cancelling
\* pairs, a diagonal, the slow modifier.
WalkKeyInputs ==
    {input \in AllKeyInputs :
        \/ input.keys \in {{}, {"W"}, {"D"}, {"W", "S"}, {"A", "D"}, {"W", "D"}}
              /\ ~input.shift
        \/ input.keys \in {{}, {"Space"}} /\ input.shift /\ ~input.ctrl}
KeyDts == {0, 16}

InitKeys ==
    /\ handler = "Running"
    /\ pc = "idle"
    /\ window = [size |-> <<1, 1>>, resized |-> <<>>, redraw_requested |-> FALSE]
    /\ camera \in {[eye |-> InitialEye, yaw |-> yaw, pitch |-> pitch,
                     moved |-> moved] :
                        yaw \in StartYaws, pitch \in {0, 100}, moved \in BOOLEAN}
    /\ gfx = GfxNew(window.size, InitialCamera)
    /\ scene = SceneNew
    /\ app = [egui_enabled |-> TRUE, dt |-> 0, focused |-> FALSE]
    /\ obs = InitialObs

CameraKeys ==
    /\ \E input \in WalkKeyInputs, dt \in KeyDts :
          /\ camera' = HandleKeyboard(camera, input, dt)
          /\ Travel(camera'.eye) <= MaxTravel
          /\ obs' = [obs EXCEPT !.keys = [applied |-> TRUE, input |-> input,
                                          before |-> camera]]
    /\ UNCHANGED <<handler, pc, window, gfx, scene, app>>

NextKeys == CameraKeys

SpecKeys == InitKeys /\ [][NextKeys]_vars

(***************************************************************************)
(* The render context driven through resize, reset_accumulation and        *)
(* update_buffers alone: any sequence of resizes to valid sizes, the       *)
(* current one included, of resets, and of frames with and without a       *)
(* camera move.  The window has the size it was last resized to.           *)
(***************************************************************************)
InitResize ==
    /\ handler = "Running"
    /\ pc = "idle"
    /\ window \in {[size |-> s, resized |-> <<>>, redraw_requested |-> FALSE] :
                      s \in ValidSizes}
    /\ camera = InitialCamera
    /\ gfx = GfxNew(window.size, camera)
    /\ scene = SceneNew
    /\ app = [egui_enabled |-> TRUE, dt |-> 0, focused |-> FALSE]
    /\ obs = InitialObs

ApiResize ==
    /\ \E size \in ValidSizes :
          LET r == TryResize(gfx, size, size)
          IN  /\ ~r.panicked
              /\ gfx' = r.gfx
              /\ window' = [window EXCEPT !.size = size]
    /\ obs' = [obs EXCEPT !.resized_from = gfx.surface_config]
    /\ UNCHANGED <<handler, pc, camera, scene, app>>

ApiResetAccumulation ==
    /\ gfx' = ResetAccumulation(gfx, window.size)
    /\ obs' = [obs EXCEPT !.resized_from = <<>>]
    /\ UNCHANGED <<handler, pc, window, camera, scene, app>>

ApiGfxUpdateBuffers ==
    /\ gfx.render_uniform.time < MaxFrames * TimeStep
    /\ \E moved \in BOOLEAN :
          LET r == GfxUpdateBuffers(gfx, [camera EXCEPT !.moved = moved],
                                    window.size)
          IN  gfx' = r.gfx /\ camera' = r.camera
    /\ obs' = [obs EXCEPT !.resized_from = <<>>, !.frames = @ + 1]
    /\ UNCHANGED <<handler, pc, window, scene, app>>

NextResize ==
    \/ ApiResize
    \/ ApiResetAccumulation
    \/ ApiGfxUpdateBuffers

SpecResize == InitResize /\ [][NextResize]_vars

(***************************************************************************)
(* Observations the properties are stated on.                              *)
(***************************************************************************)
\* frames_accumulated as the GPU holds it in the uniform buffer.
Uploaded == gfx.render_uniform_buffer.data[1].frames_accumulated

\* gfx_context.update_buffers has run in the frame in progress.
Reconciled == pc = "input" /\ obs.seen.valid

\* The frame in progress is not the first to upload a uniform.
LaterFrame == Reconciled /\ obs.seen.prev_uploaded >= 1

\* What reset_accumulation leaves observable: the counter, the buffer's
\* size, the bind group pointing at the buffer, the buffers kept alive.
AccumulationView(g) ==
    [frames_accumulated |-> g.render_uniform.frames_accumulated,
     size |-> g.accumulation_buffer.buffer.size,
     bound |-> g.accumulation_buffer.bind_group.buffer
                   = g.accumulation_buffer.buffer.id,
     live |-> Cardinality({g.accumulation_buffer.buffer.id,
                           g.accumulation_buffer.bind_group.buffer}),
     rest |-> [g EXCEPT !.accumulation_buffer = 0]]

(***************************************************************************)
(* Properties.                                                             *)
(***************************************************************************)

\* C1: when camera.moved is set as update_buffers runs, the uniform uploaded
\* by that frame carries frames_accumulated = 1 and moved is false when
\* update_buffers returns.
C1_MovedResets ==
    /\ (Reconciled /\ "move" \in obs.seen.triggers) => Uploaded = 1
    /\ (pc = "input" /\ "move" \in obs.seen.triggers) => ~camera.moved
    /\ pc = "input" => ~camera.moved

\* C1, the step before: a non-zero look delta with the button down, outside
\* the panel, sets moved.
C1_LookDeltaSetsMoved ==
    [][\A d \in MouseDeltas \ {<<0, 0>>} :
          MouseMotionWith(d, TRUE, FALSE) => camera'.moved]_vars

\* C1: a camera move resets the frame that sees it, update_buffers clears
\* moved, and a non-zero look delta is such a move.
C1_Theorem == []C1_MovedResets /\ C1_LookDeltaSetsMoved

C1_Witness ==
    /\ pc = "input" /\ LaterFrame
    /\ obs.seen.triggers = {"move"}
    /\ Uploaded = 1 /\ ~camera.moved

\* C2: after a resize between two frames, and nothing else invalidating, the
\* next update_buffers uploads frames_accumulated = 1.
C2_ResizeUploadsOne ==
    (Reconciled /\ obs.seen.triggers = {"resize"}) => Uploaded = 1

\* C3: after the accumulate toggle was flipped in the frame's UI pass, and
\* nothing else invalidating, the frame uploads frames_accumulated = 1.
C3_ToggleUploadsOne ==
    (Reconciled /\ obs.seen.triggers = {"toggle"}) => Uploaded = 1

\* C4: when a sphere or material was added since the last reconciliation,
\* and nothing else invalidating, the frame uploads frames_accumulated = 1.
C4_SceneChangeUploadsOne ==
    (Reconciled /\ obs.seen.triggers = {"scene"}) => Uploaded = 1

\* C5: whatever non-empty set of triggers fired before or during the frame,
\* the frame uploads frames_accumulated = 1.
C5_AnyTriggerUploadsOne ==
    (Reconciled /\ obs.seen.triggers # {}) => Uploaded = 1

\* C6: with no invalidating event since the previous reconciliation, the
\* frame uploads the previously uploaded frames_accumulated plus 1.
C6_Monotone ==
    (Reconciled /\ obs.seen.triggers = {})
        => Uploaded = obs.seen.prev_uploaded + 1

C6_Witness ==
    /\ LaterFrame /\ obs.seen.triggers = {}
    /\ Uploaded = 2 /\ obs.seen.prev_uploaded = 1

\* C7: the frames_accumulated the GPU holds when the path-tracing pass is
\* issued is at least 1, in the first frame too.
C7_AtLeastOne ==
    Reconciled => (Uploaded >= 1 /\ gfx.render_uniform.frames_accumulated >= 1)

C7_Witness ==
    /\ Reconciled
    /\ obs.seen.prev_uploaded = InitialFramesAccumulated
    /\ gfx.render_uniform.time = TimeStep
    /\ Uploaded = 1

\* C8: reset_accumulation applied twice leaves what it leaves applied once:
\* frames_accumulated = 1 after each, one buffer of the window's size, bound.
C8_ResetIdempotent ==
    LET once == ResetAccumulation(gfx, window.size)
        twice == ResetAccumulation(once, window.size)
    IN  /\ AccumulationView(once) = AccumulationView(twice)
        /\ once.render_uniform.frames_accumulated = 1
        /\ twice.render_uniform.frames_accumulated = 1
        /\ AccumulationView(twice).bound
        /\ AccumulationView(twice).live = 1
        /\ AccumulationView(twice).size = CalculateBytes(window.size)

\* A resize after the first frame has just reset accumulation, and one more
\* reset would change nothing observable.
C8_Witness ==
    /\ pc = "idle" /\ "resize" \in obs.invalidated
    /\ window.resized = <<>>
    /\ gfx.render_uniform.time >= TimeStep
    /\ AccumulationView(ResetAccumulation(gfx, window.size)) = AccumulationView(gfx)

\* C9: right after Scene::update_buffers the sphere buffer holds exactly the
\* spheres, the material buffer exactly the materials, and no flag is set.
C9_BuffersMatch ==
    obs.recon.valid =>
        /\ scene.spheres_buffer.len = Len(scene.spheres)
        /\ scene.spheres_buffer.data = scene.spheres
        /\ scene.materials_buffer.len = Len(scene.materials)
        /\ scene.materials_buffer.data = scene.materials
        /\ ~scene.spheres_size_changed
        /\ ~scene.materials_size_changed

C9_Witness ==
    /\ obs.recon.valid
    /\ obs.recon.spheres_added = 2 /\ obs.recon.materials_added = 1
    /\ scene.spheres_buffer.len = 3 /\ scene.materials_buffer.len = 2

\* C10: k >= 1 adds before a reconciliation make it create one buffer per
\* grown collection, sized for the whole collection, and one bind group;
\* a reconciliation with nothing added creates neither.
C10_OneReallocation ==
    obs.recon.valid =>
        LET grew_s == obs.recon.spheres_added >= 1
            grew_m == obs.recon.materials_added >= 1
        IN  /\ obs.recon.buffers_created
                   = (IF grew_s THEN 1 ELSE 0) + (IF grew_m THEN 1 ELSE 0)
            /\ obs.recon.bind_groups_created
                   = (IF grew_s \/ grew_m THEN 1 ELSE 0)
            /\ grew_s <=> scene.spheres_buffer.id # obs.recon.spheres_before
            /\ grew_m <=> scene.materials_buffer.id # obs.recon.materials_before
            /\ grew_s => scene.spheres_buffer.len = Len(scene.spheres)
            /\ grew_m => scene.materials_buffer.len = Len(scene.materials)
            /\ scene.bind_group
                   = SceneCreateBindGroup(scene.spheres_buffer,
                                          scene.materials_buffer)

\* Scenario B: one sphere, three adds, one reconciliation.
C10_Witness ==
    /\ obs.recon.valid
    /\ obs.recon.spheres_added = 3 /\ obs.recon.materials_added = 0
    /\ Len(scene.spheres) = 4 /\ scene.spheres_buffer.len = 4
    /\ obs.recon.buffers_created = 1 /\ obs.recon.bind_groups_created = 1

\* C11: at every draw (the frame is between its uploads and its
\* presentation) the scene bind group references the sphere and material
\* buffers the scene holds, and the accumulation bind group references the
\* accumulation buffer the context holds: no bind group over a replaced
\* buffer is bound.
C11_NoStaleBindGroup ==
    pc = "input" =>
        /\ scene.bind_group.spheres = scene.spheres_buffer.id
        /\ scene.bind_group.materials = scene.materials_buffer.id
        /\ gfx.accumulation_buffer.bind_group.buffer
               = gfx.accumulation_buffer.buffer.id

\* A draw in a frame that replaced a scene buffer and the accumulation
\* buffer.
C11_Witness ==
    /\ pc = "input" /\ obs.recon.valid
    /\ obs.recon.buffers_created >= 1
    /\ scene.spheres_buffer.id # obs.recon.spheres_before
    /\ "move" \in obs.seen.triggers
    /\ gfx.render_uniform.frames_accumulated = 1
    /\ C11_NoStaleBindGroup

\* C12: in every reachable state the accumulation buffer is width * height
\* * 16 bytes long, (width, height) being the dimensions held by the frame
\* uniform, which are also those of the configured surface.
C12_BufferMatchesDimensions ==
    /\ gfx.render_uniform.dimensions = gfx.surface_config
    /\ gfx.accumulation_buffer.buffer.size
           = gfx.render_uniform.dimensions[1]
               * gfx.render_uniform.dimensions[2] * Vec4Bytes

\* Sizes with a zero width or a zero height.
ZeroSizes == {<<0, 0>>, <<0, 1>>, <<1, 0>>}

\* C13: resize with a zero width or a zero height fails its assertion
\* before anything is changed: whatever the context, the call panics and the
\* surface configuration, the uniform's aspect ratio and dimensions, the
\* accumulation buffer and frames_accumulated are as the call found them;
\* and that is what every such panic of a run left behind.
C13_ZeroResizeChangesNothing ==
    /\ \A size \in ZeroSizes :
          LET r == TryResize(gfx, size, window.size)
          IN  r.panicked /\ ResizeView(r.gfx) = ResizeView(gfx)
    /\ obs.panic.cause = "assert" => obs.panic.left = obs.panic.found

\* resize(0, 0) has panicked on a context that had uploaded frames at a
\* non-zero size.
C13_Witness ==
    /\ handler = "Panicked" /\ obs.panic.cause = "assert"
    /\ obs.panic.found.frames_accumulated >= 2
    /\ obs.panic.found.dimensions \in ValidSizes
    /\ obs.panic.left = obs.panic.found

\* C14: no sequence of window events and frames makes the App call resize
\* with a zero width or height, from the Resized handler or from the
\* Lost/Outdated path: the assertion of resize never fires.
C14_AssertionNeverFires == obs.panic.cause # "assert"

\* C15: a frame whose render() returns Timeout is skipped without any change
\* of state: when App::update returns, frames_accumulated and time are what
\* they were when it was entered.
C15_TimeoutChangesNothing ==
    [][\A focused \in FocusOutcomes, input \in KeyInputs :
          PresentWith(focused, input, "Timeout") =>
              /\ gfx'.render_uniform.frames_accumulated
                     = obs.seen.started.frames_accumulated
              /\ gfx'.render_uniform.time = obs.seen.started.time]_vars

\* C16: when render() returns Lost or Outdated, App::update reconfigures the
\* surface at the window's current size and resets accumulation
\* (frames_accumulated = 1, a new accumulation buffer) before the next frame
\* begins; the error goes no further: the App keeps running and a redraw is
\* requested.
C16_LostReconfigures ==
    [][\A focused \in FocusOutcomes, input \in KeyInputs,
          result \in {"Lost", "Outdated"} :
          PresentWith(focused, input, result) =>
              /\ handler' = "Running" /\ pc' = "idle"
              /\ window'.redraw_requested
              /\ gfx'.surface_config = window.size
              /\ gfx'.render_uniform.frames_accumulated = 1
              /\ gfx'.accumulation_buffer.buffer.id
                     # gfx.accumulation_buffer.buffer.id]_vars

\* C17: when render() returns OutOfMemory the process panics in that frame:
\* no resize is attempted, no redraw is requested, and once the process has
\* panicked no event is handled and no frame is rendered any more.
C17_OutOfMemoryIsFatal ==
    [][/\ \A focused \in FocusOutcomes, input \in KeyInputs :
             PresentWith(focused, input, "OutOfMemory") =>
                 /\ handler' = "Panicked"
                 /\ obs'.panic.cause = "out_of_memory"
                 /\ ~window'.redraw_requested
       /\ handler = "Panicked" => FALSE]_vars

\* The process has panicked on OutOfMemory.
C17_Witness ==
    /\ handler = "Panicked" /\ obs.panic.cause = "out_of_memory"
    /\ ~window.redraw_requested /\ ~ENABLED Next

\* C18: whatever yaw and pitch the camera starts from and whatever the look
\* delta, after handle_mouse has run with the primary button down the pitch
\* is within [-89, 89] degrees.
C18_LookClampsPitch ==
    obs.look.applied => -PitchLimit <= camera.pitch /\ camera.pitch <= PitchLimit

\* handle_mouse has brought a pitch from beyond the limit back onto it.
C18_Witness ==
    /\ obs.look.applied
    /\ obs.look.pitch_before > PitchLimit
    /\ camera.pitch = PitchLimit

\* C19: the camera's pitch is within [-89, 89] degrees in every reachable
\* state, whatever look deltas, keyboard moves and inspector edits led to it.
C19_PitchWithinLimit ==
    -PitchLimit <= camera.pitch /\ camera.pitch <= PitchLimit

\* C20: whenever the view a frame uploads differs from the view the previous
\* frame uploaded, the camera's moved flag was set when that frame's
\* update_buffers began.
C20_PoseChangeSetsMoved ==
    [][(UpdateBuffers
          /\ gfx'.render_uniform_buffer.data[1].inverse_view
                 # gfx.render_uniform_buffer.data[1].inverse_view)
       => "move" \in obs'.seen.triggers]_vars

\* C21: add_sphere appends exactly one sphere at the end of spheres and sets
\* spheres_size_changed, leaving the materials and their flag alone;
\* add_material does the same on the materials, leaving the spheres and
\* their flag alone; no operation of the scene shortens either collection.
C21_AddsTouchOwnCollection ==
    [][/\ ApiAddSphere =>
             /\ Len(scene'.spheres) = Len(scene.spheres) + 1
             /\ SubSeq(scene'.spheres, 1, Len(scene.spheres)) = scene.spheres
             /\ scene'.spheres_size_changed
             /\ scene'.materials = scene.materials
             /\ scene'.materials_size_changed = scene.materials_size_changed
       /\ ApiAddMaterial =>
             /\ Len(scene'.materials) = Len(scene.materials) + 1
             /\ SubSeq(scene'.materials, 1, Len(scene.materials))
                    = scene.materials
             /\ scene'.materials_size_changed
             /\ scene'.spheres = scene.spheres
             /\ scene'.spheres_size_changed = scene.spheres_size_changed
       /\ Len(scene'.spheres) >= Len(scene.spheres)
       /\ Len(scene'.materials) >= Len(scene.materials)]_vars

\* A sphere has been added to a clean scene: one more sphere, the sphere
\* flag set, the materials and their flag as they were.
C21_Witness ==
    /\ obs.adds = <<1, 0>>
    /\ Len(scene.spheres) = Len(SceneNew.spheres) + 1
    /\ scene.spheres_size_changed /\ ~scene.materials_size_changed
    /\ scene.materials = SceneNew.materials

\* C22: an in-place edit through spheres_mut() or materials_mut() changes
\* neither size flag nor either collection's length, and a reconciliation
\* that follows edits and no add creates no buffer and no bind group: the
\* buffers and the bind group are the ones it found.
C22_EditsLeaveFlagsAlone ==
    [][/\ (ApiEditSphere \/ ApiEditMaterial) =>
             /\ scene'.spheres_size_changed = scene.spheres_size_changed
             /\ scene'.materials_size_changed = scene.materials_size_changed
             /\ Len(scene'.spheres) = Len(scene.spheres)
             /\ Len(scene'.materials) = Len(scene.materials)
       /\ (ApiUpdateBuffers /\ obs.edited /\ obs.adds = <<0, 0>>) =>
             /\ obs'.recon.buffers_created = 0
             /\ obs'.recon.bind_groups_created = 0
             /\ scene'.spheres_buffer.id = scene.spheres_buffer.id
             /\ scene'.materials_buffer.id = scene.materials_buffer.id
             /\ scene'.bind_group = scene.bind_group]_vars

\* A reconciliation has run after an in-place edit of a sphere and no add:
\* it created nothing and the edited sphere is in the buffer it found.
C22_Witness ==
    /\ obs.recon.valid /\ obs.edited
    /\ obs.recon.spheres_added = 0 /\ obs.recon.materials_added = 0
    /\ obs.recon.buffers_created = 0 /\ obs.recon.bind_groups_created = 0
    /\ scene.spheres[1].material_index # DefaultSphere.material_index
    /\ scene.spheres_buffer.id = obs.recon.spheres_before
    /\ scene.spheres_buffer.data = scene.spheres

\* C23: every frame uploads the uniform, the spheres and the materials
\* whatever the size flags were: once a frame's update_buffers calls have
\* run, the uniform buffer holds the in-memory uniform and the scene's two
\* buffers hold its spheres and its materials.
C23_UploadsEveryFrame ==
    pc = "input" =>
        /\ gfx.render_uniform_buffer.data = <<gfx.render_uniform>>
        /\ scene.spheres_buffer.data = scene.spheres
        /\ scene.materials_buffer.data = scene.materials

\* A frame in which a sphere was edited in place and no buffer was created:
\* the edited sphere is in the buffer the frame draws from.
C23_Witness ==
    /\ pc = "input" /\ obs.recon.valid
    /\ obs.recon.buffers_created = 0
    /\ scene.spheres[1].material_index # DefaultSphere.material_index
    /\ scene.spheres_buffer.data[1] = scene.spheres[1]
    /\ gfx.render_uniform_buffer.data[1].frames_accumulated
           = gfx.render_uniform.frames_accumulated

\* The order the frame's steps are specified in: input/UI query, uniform
\* recompute, scene reconciliation, accumulation reconciliation, upload,
\* path-tracing pass, overlay pass, present.
SpecifiedSteps ==
    <<"input", "uniform", "scene", "accumulation", "upload", "trace",
      "overlay", "present">>

\* C24: within every frame the steps run in the specified order: what a
\* frame has done when its uploads are finished is the beginning of that
\* order.
C24_StepsInSpecifiedOrder ==
    obs.seen.valid =>
        /\ Len(obs.seen.steps) <= Len(SpecifiedSteps)
        /\ obs.seen.steps = SubSeq(SpecifiedSteps, 1, Len(obs.seen.steps))

\* C25: the camera is not moved between the recompute of the uniform and
\* the presentation of the same frame: when a frame has been drawn and
\* presented, the view it uploaded is the view of the pose the camera holds.
C25_ViewIsPoseAtDraw ==
    [][\A focused \in FocusOutcomes, input \in KeyInputs :
          PresentWith(focused, input, "Ok") =>
              gfx.render_uniform_buffer.data[1].inverse_view
                  = CalculateView(camera')]_vars

C27_TimeIsFrameCount ==
    gfx.render_uniform.time = obs.frames * TimeStep

\* The second frame, which reset accumulation for a camera move, after a
\* resize: time is two steps.
C27_Witness ==
    /\ pc = "input" /\ obs.frames = 2
    /\ {"move", "resize"} \subseteq obs.seen.triggers
    /\ gfx.render_uniform.frames_accumulated = 1
    /\ gfx.render_uniform.time = 2 * TimeStep

\* C28: a resize to the dimensions the context already has completes
\* without a panic and leaves frames_accumulated = 1 and the same
\* dimensions; and whatever resizes and resets have happened, one
\* accumulation buffer and one accumulation bind group are held, the bind
\* group over that buffer.
C28_SameSizeResize ==
    /\ AccumulationView(gfx).bound /\ AccumulationView(gfx).live = 1
    /\ ResizeAsserts(gfx.surface_config) =>
          LET r == TryResize(gfx, gfx.surface_config, gfx.surface_config)
          IN  /\ ~r.panicked
              /\ r.gfx.render_uniform.frames_accumulated = 1
              /\ r.gfx.surface_config = gfx.surface_config
              /\ r.gfx.render_uniform.dimensions = gfx.surface_config
              /\ AccumulationView(r.gfx).size
                     = CalculateBytes(gfx.surface_config)
              /\ AccumulationView(r.gfx).bound
              /\ AccumulationView(r.gfx).live = 1
    /\ obs.resized_from # <<>> =>
          /\ gfx.render_uniform.frames_accumulated = 1
          /\ AccumulationView(gfx).size = CalculateBytes(gfx.surface_config)

\* The context has been resized to the size it had, after frames: the
\* counter is 1 and one buffer, of the same size, is held and bound.
C28_Witness ==
    /\ obs.resized_from = gfx.surface_config
    /\ obs.frames >= 1
    /\ gfx.render_uniform.frames_accumulated = 1
    /\ AccumulationView(gfx).bound /\ AccumulationView(gfx).live = 1
    /\ AccumulationView(gfx).size = CalculateBytes(obs.resized_from)

\* The net movement vector of a key state: forward for W less S, right for
\* D less A, up for Space less Shift.
NetVector(cam, input) ==
    LET forward == Forward(cam)
        right == Cross(forward, UnitY)
        Down(key) == IF key \in input.keys THEN 1 ELSE 0
        up == Down("Space") - (IF input.shift THEN 1 ELSE 0)
    IN  VAdd(VAdd(VScaleDiv(Down("W") - Down("S"), forward, 1),
                  VScaleDiv(Down("D") - Down("A"), right, 1)),
             VScaleDiv(up, UnitY, 1))

\* C29: handle_keyboard, for every key state and dt: with no movement key
\* or exactly cancelling keys the net vector is zero; with a zero net vector
\* the position is unchanged and moved keeps its value; with a non-zero one
\* the position changes by speed * dt along the normalized vector and moved
\* is true; yaw and pitch are never changed.
C29_KeyboardMovesOnNetVector ==
    /\ \A input \in AllKeyInputs, dt \in KeyDts :
          LET after == HandleKeyboard(camera, input, dt)
              net == NetVector(camera, input)
              speed == IF input.ctrl THEN SpeedSlow ELSE SpeedFast
              cancelling ==
                  /\ ("W" \in input.keys) = ("S" \in input.keys)
                  /\ ("A" \in input.keys) = ("D" \in input.keys)
                  /\ ("Space" \in input.keys) = input.shift
          IN  /\ cancelling => net = Zero3
              /\ net = Zero3 =>
                    after.eye = camera.eye /\ after.moved = camera.moved
              /\ net # Zero3 =>
                    /\ after.moved
                    /\ after.eye
                         = VAdd(camera.eye,
                                VScaleDiv(speed * dt, Normalize(net), 1000))
              /\ after.yaw = camera.yaw /\ after.pitch = camera.pitch
    /\ obs.keys.applied /\ camera # obs.keys.before =>
          camera.moved /\ NetVector(obs.keys.before, obs.keys.input) # Zero3

\* handle_keyboard has run with W and S both down on a camera at rest: the
\* position and the moved flag are as before.
C29_Witness ==
    /\ obs.keys.applied
    /\ obs.keys.input.keys = {"W", "S"}
    /\ ~obs.keys.before.moved /\ ~camera.moved
    /\ camera.eye = obs.keys.before.eye
    /\ camera.pitch # 0

\* C30: handle_mouse sets moved exactly when the applied look delta is
\* non-zero: a (0, 0) delta leaves yaw, pitch and moved as they were, a set
\* moved flag is never cleared, and the position is never changed.
C30_LookSetsMovedOnNonZeroDelta ==
    [][\A delta \in MouseDeltas, primary_down \in BOOLEAN :
          MouseMotionWith(delta, primary_down, FALSE) =>
              /\ camera'.eye = camera.eye
              /\ camera.moved => camera'.moved
              /\ primary_down /\ delta # <<0, 0>> => camera'.moved
              /\ delta = <<0, 0>> =>
                    /\ camera'.yaw = camera.yaw
                    /\ camera'.pitch = camera.pitch
                    /\ camera'.moved = camera.moved]_vars

\* C31: after any sequence of add sphere, add material and material-index
\* slider edits there is at least one material and every sphere's
\* material_index is below materials.len(), in memory and, once reconciled,
\* in the buffers a render pass reads.
C31_MaterialIndicesInRange ==
    /\ Len(scene.materials) >= 1
    /\ \A i \in 1..Len(scene.spheres) :
          /\ scene.spheres[i].material_index >= 0
          /\ scene.spheres[i].material_index < Len(scene.materials)
    /\ obs.recon.valid =>
          \A i \in 1..Len(scene.spheres_buffer.data) :
              scene.spheres_buffer.data[i].material_index
                  < Len(scene.materials_buffer.data)

\* A material was added, a sphere's slider was moved onto it, a sphere was
\* added, and the scene was reconciled and uploaded.
C31_Witness ==
    /\ obs.recon.valid
    /\ Len(scene.materials) = 2
    /\ Len(scene.spheres) >= 2
    /\ scene.spheres[1].material_index = 1
    /\ scene.spheres_buffer.data = scene.spheres

\* C32: in any frame or mouse-motion event in which the primary button is
\* not held or the pointer is over the inspector, the keyboard and mouse
\* handlers leave position, yaw, pitch and moved unchanged, and focus is
\* dropped: focused is false afterwards.
C32_InputOnlyWhileFocused ==
    [][/\ \A delta \in MouseDeltas, primary_down \in BOOLEAN, hovering \in BOOLEAN :
             (FocusMouseMotionWith(delta, primary_down, hovering)
                 /\ ~(primary_down /\ ~hovering))
             => camera' = camera /\ ~app'.focused
       /\ \A input \in KeyInputs, result \in SurfaceResults :
             (PresentWith(FALSE, input, result) /\ handler' = "Running")
             => camera' = camera /\ ~app'.focused]_vars

\* C33: a window or device event that arrives while the handler is
\* Initializing changes nothing; the handler becomes Running only through
\* resumed; once it has left Initializing it never returns to it.
C33_InitializingIgnoresEvents ==
    [][/\ handler = "Initializing" =>
             Resumed \/ UNCHANGED <<handler, pc, window, camera, gfx, scene, app>>
       /\ (handler # "Running" /\ handler' = "Running") => Resumed
       /\ handler # "Initializing" => handler' # "Initializing"]_vars

\* An event was delivered before resumed and ignored; resumed then built the
\* App, which has drawn a frame after a mouse look.
C33_Witness ==
    /\ handler = "Running"
    /\ obs.ignored
    /\ obs.frames > 0
    /\ camera.pitch # InitialCamera.pitch

====
